---- MODULE Spec2Model ----
(***************************************************************************)
(* Model of the pass-through ("bytes") decoder of                          *)
(* lib/codecs/src/decoding/format/bytes.rs: BytesDeserializerConfig        *)
(* (build, output_type, schema_definition) and BytesDeserializer (new,     *)
(* parse_single, parse), together with the process-wide log schema the     *)
(* code reads through log_schema().message_key().                          *)
(*                                                                         *)
(* A byte buffer is a sequence over Byte.  A message key is a valid        *)
(* single-segment field name.  A parse call is split at the points where   *)
(* another thread can run: the call, parse_single, and the return.         *)
(***************************************************************************)
EXTENDS Integers, Sequences, FiniteSets, TLC

\* ---- bounds -------------------------------------------------------------
MaxLen == 2
MaxKeySets == 1
NumDecoders == 2

\* ---- domains ------------------------------------------------------------
Byte == {0, 255}
Keys == {"message", "msg"}
Workers == {"w1", "w2"}
DecoderIds == 1..NumDecoders
LogNamespace == {"Legacy", "Vector"}

RECURSIVE SeqsUpTo(_, _)
SeqsUpTo(S, n) ==
  IF n = 0 THEN {<<>>}
  ELSE LET shorter == SeqsUpTo(S, n - 1)
       IN shorter \cup {Append(s, x) : s \in {t \in shorter : Len(t) = n - 1}, x \in S}

Buffers == SeqsUpTo(Byte, MaxLen)

VARIABLES
  message_key,   \* the process-wide log schema's message key
  key_sets,      \* how many times the process-wide key has been set
  decoders,      \* the BytesDeserializer instances, by id
  built_under,   \* history: the process-wide key when each instance was built
  pool,          \* the worker threads that share the instances
  workers,       \* each worker's position in its parse call, and its locals
  schemas,       \* history: the definitions schema_definition has returned
  otype,         \* history: the last value output_type has returned
  memo           \* history: one completed parse call, remembered

vars == <<message_key, key_sets, decoders, built_under, pool, workers, schemas, otype, memo>>

\* ---- values, events (value::Value, vector_core::event) -------------------
NullValue == [kind |-> "null", bytes |-> <<>>, fields |-> {}]
BytesValue(b) == [kind |-> "bytes", bytes |-> b, fields |-> {}]
ObjectValue(F) == [kind |-> "object", bytes |-> <<>>, fields |-> F]

FieldNames(v) == {f[1] : f \in v.fields}
Field(v, name) == (CHOOSE f \in v.fields : f[1] = name)[2]

\* lookup::lookup_v2::parse_value_path for a single-segment field name
parse_value_path(key) == <<key>>
event_root == <<>>

\* Value::insert at a path: the root is replaced, a field is set in an object
RECURSIVE ValueInsert(_, _, _)
ValueInsert(v, path, new) ==
  IF path = <<>> THEN new
  ELSE LET name == Head(path)
           base == IF v.kind = "object" THEN v ELSE ObjectValue({})
           old  == IF name \in FieldNames(base) THEN Field(base, name) ELSE NullValue
       IN ObjectValue({f \in base.fields : f[1] # name}
                      \cup {<<name, ValueInsert(old, Tail(path), new)>>})

\* Value::get at a path
RECURSIVE ValueGet(_, _)
ValueGet(v, path) ==
  IF path = <<>> THEN [found |-> TRUE, value |-> v]
  ELSE IF v.kind = "object" /\ Head(path) \in FieldNames(v)
       THEN ValueGet(Field(v, Head(path)), Tail(path))
       ELSE [found |-> FALSE, value |-> NullValue]

NoLog == [value |-> NullValue, metadata |-> NullValue]
\* LogEvent::default(): an empty object, default metadata
LogEvent_default == [value |-> ObjectValue({}), metadata |-> ObjectValue({})]
\* LogEvent::insert(path, value)
LogEvent_insert(log, key, value) ==
  [log EXCEPT !.value = ValueInsert(@, parse_value_path(key), value)]
\* LogNamespace::new_log_from_data(value): the value is the root of the event
new_log_from_data(log_namespace, value) ==
  [value |-> value, metadata |-> ObjectValue({})]
\* From<LogEvent> for Event
Event_from_log(log) == [type |-> "Log", log |-> log]

NoResult == [status |-> "none", events |-> <<>>]
Ok(events) == [status |-> "Ok", events |-> events]
Err == [status |-> "Err", events |-> <<>>]

\* ---- the process-wide log schema ----------------------------------------
LOG_SCHEMA_DEFAULT == "message"
\* log_schema().message_key()
log_schema_message_key == message_key

\* ---- BytesDeserializer --------------------------------------------------
NoDecoder == [built |-> FALSE, log_schema_message_key |-> ""]

BytesDeserializer_new_default == [built |-> TRUE, log_schema_message_key |-> LOG_SCHEMA_DEFAULT]
\* BytesDeserializer::new
BytesDeserializer_new == [built |-> TRUE, log_schema_message_key |-> log_schema_message_key]

parse_single_relookup(self, bytes, log_namespace) ==
  IF log_namespace = "Vector" THEN new_log_from_data(log_namespace, BytesValue(bytes))
  ELSE LogEvent_insert(LogEvent_default, log_schema_message_key, BytesValue(bytes))
parse_single_skip_empty(self, bytes, log_namespace) ==
  IF log_namespace = "Vector" THEN new_log_from_data(log_namespace, BytesValue(bytes))
  ELSE IF bytes = <<>> THEN LogEvent_default
  ELSE LogEvent_insert(LogEvent_default, self.log_schema_message_key, BytesValue(bytes))
parse_single_always_keyed(self, bytes, log_namespace) ==
  LogEvent_insert(LogEvent_default, self.log_schema_message_key, BytesValue(bytes))
\* BytesDeserializer::parse_single
parse_single(self, bytes, log_namespace) ==
  IF log_namespace = "Vector" THEN new_log_from_data(log_namespace, BytesValue(bytes))
  ELSE LogEvent_insert(LogEvent_default, self.log_schema_message_key, BytesValue(bytes))

parse_result_rejects_empty(log) ==
  IF log.value = BytesValue(<<>>) \/ log.value = ObjectValue({}) \/
     (log.value.kind = "object" /\ \E f \in log.value.fields : f[2] = BytesValue(<<>>))
  THEN Err ELSE Ok(<<Event_from_log(log)>>)
\* Ok(smallvec![log.into()])
parse_result(log) == Ok(<<Event_from_log(log)>>)

\* Deserializer::parse, run alone
parse(self, bytes, log_namespace) == parse_result(parse_single(self, bytes, log_namespace))

\* ---- BytesDeserializerConfig --------------------------------------------
BytesDeserializerConfig == [type |-> "BytesDeserializerConfig"]

\* BytesDeserializerConfig::build
build(self) == BytesDeserializer_new

output_type_metric(self) == "Metric"
\* BytesDeserializerConfig::output_type
output_type(self) == "Log"

\* value::Kind
Kind_bytes == [type |-> "bytes", fields |-> {}]
Kind_object(F) == [type |-> "object", fields |-> F]
TargetPath_event(path) == [prefix |-> "event", path |-> path]

\* schema::Definition::new_with_default_metadata
new_with_default_metadata(kind, namespaces) ==
  [event_kind |-> kind, metadata_kind |-> Kind_object({}),
   meaning |-> {}, log_namespaces |-> namespaces]
\* schema::Definition::empty_legacy_namespace
empty_legacy_namespace == new_with_default_metadata(Kind_object({}), {"Legacy"})
\* schema::Definition::with_meaning
with_meaning(def, target, meaning) ==
  [def EXCEPT !.meaning = {m \in @ : m[1] # meaning} \cup {<<meaning, target>>}]
\* schema::Definition::with_event_field, for a single-segment path
with_event_field(def, path, kind, meaning) ==
  with_meaning(
    [def EXCEPT !.event_kind =
       Kind_object({f \in @.fields : f[1] # Head(path)} \cup {<<Head(path), kind>>})],
    TargetPath_event(path), meaning)

\* BytesDeserializerConfig::schema_definition
schema_definition(self, log_namespace) ==
  IF log_namespace = "Legacy"
  THEN with_event_field(empty_legacy_namespace,
                        parse_value_path(log_schema_message_key), Kind_bytes, "message")
  ELSE with_meaning(new_with_default_metadata(Kind_bytes, {log_namespace}),
                    TargetPath_event(event_root), "message")

\* ---- state machine --------------------------------------------------------
IdleWorker ==
  [pc |-> "idle", d |-> 0, ns |-> "Legacy", input |-> <<>>, bytes |-> <<>>,
   log |-> NoLog, result |-> NoResult]
NoMemo == [taken |-> FALSE, d |-> 0, bytes |-> <<>>, ns |-> "Legacy", result |-> NoResult]

InitCommon ==
  /\ message_key = LOG_SCHEMA_DEFAULT
  /\ key_sets = 0
  /\ decoders = [d \in DecoderIds |-> NoDecoder]
  /\ built_under = [d \in DecoderIds |-> ""]
  /\ workers = [w \in Workers |-> IdleWorker]
  /\ schemas = [ns \in LogNamespace |-> {}]
  /\ otype = "none"
  /\ memo = NoMemo

\* several workers share the instances
Init == InitCommon /\ pool = Workers
\* one worker calls them in sequence
InitOne == InitCommon /\ pool = {"w1"}

\* the process-wide message key is set from the global configuration
SetMessageKey(k) ==
  /\ key_sets < MaxKeySets
  /\ message_key' = k
  /\ key_sets' = key_sets + 1
  /\ UNCHANGED <<decoders, built_under, pool, workers, schemas, otype, memo>>

\* config.build(): a new instance
Build ==
  /\ \E d \in DecoderIds :
       /\ ~decoders[d].built
       /\ \A e \in DecoderIds : e < d => decoders[e].built
       /\ decoders' = [decoders EXCEPT ![d] = build(BytesDeserializerConfig)]
       /\ built_under' = [built_under EXCEPT ![d] = message_key]
  /\ UNCHANGED <<message_key, key_sets, pool, workers, schemas, otype, memo>>

\* a worker calls parse(bytes, log_namespace) on instance d with a handle to its buffer
Call(w, d, b, ns) ==
  /\ w \in pool
  /\ workers[w].pc \in {"idle", "done"}
  /\ decoders[d].built
  /\ workers' = [workers EXCEPT ![w] =
       [pc |-> "parse_single", d |-> d, ns |-> ns, input |-> b, bytes |-> b,
        log |-> NoLog, result |-> NoResult]]
  /\ UNCHANGED <<message_key, key_sets, decoders, built_under, pool, schemas, otype, memo>>

ParseSingleStep_refresh(w) ==
  /\ workers[w].pc = "parse_single"
  /\ workers' = [workers EXCEPT ![w].pc = "return",
       ![w].log = parse_single(decoders[workers[w].d], workers[w].bytes, workers[w].ns)]
  /\ decoders' = [decoders EXCEPT ![workers[w].d].log_schema_message_key = message_key]
  /\ UNCHANGED <<message_key, key_sets, built_under, pool, schemas, otype, memo>>
\* let log = self.parse_single(bytes, log_namespace)
ParseSingleStep(w) ==
  /\ workers[w].pc = "parse_single"
  /\ workers' = [workers EXCEPT ![w].pc = "return",
       ![w].log = parse_single(decoders[workers[w].d], workers[w].bytes, workers[w].ns)]
  /\ UNCHANGED <<message_key, key_sets, decoders, built_under, pool, schemas, otype, memo>>

\* Ok(smallvec![log.into()])
ReturnStep(w) ==
  /\ workers[w].pc = "return"
  /\ workers' = [workers EXCEPT ![w].pc = "done", ![w].result = parse_result(workers[w].log)]
  /\ UNCHANGED <<message_key, key_sets, decoders, built_under, pool, schemas, otype, memo>>

\* config.schema_definition(log_namespace); the returned definition is recorded
SchemaDefinition(ns) ==
  /\ schemas' = [schemas EXCEPT ![ns] = @ \cup {schema_definition(BytesDeserializerConfig, ns)}]
  /\ UNCHANGED <<message_key, key_sets, decoders, built_under, pool, workers, otype, memo>>

\* config.output_type(); the returned value is recorded
OutputType ==
  /\ otype' = output_type(BytesDeserializerConfig)
  /\ UNCHANGED <<message_key, key_sets, decoders, built_under, pool, workers, schemas, memo>>

\* the caller takes one completed call's result away; it is remembered
Remember(w) ==
  /\ workers[w].pc = "done"
  /\ ~memo.taken
  /\ memo' = [taken |-> TRUE, d |-> workers[w].d, bytes |-> workers[w].bytes,
              ns |-> workers[w].ns, result |-> workers[w].result]
  /\ workers' = [workers EXCEPT ![w] = IdleWorker]
  /\ UNCHANGED <<message_key, key_sets, decoders, built_under, pool, schemas, otype>>

SetKeyAny == \E k \in Keys : SetMessageKey(k)
CallAny == \E w \in Workers, d \in DecoderIds, b \in Buffers, ns \in LogNamespace : Call(w, d, b, ns)
ParseSingleAny == \E w \in Workers : ParseSingleStep(w)
ReturnAny == \E w \in Workers : ReturnStep(w)
SchemaAny == \E ns \in LogNamespace : SchemaDefinition(ns)
RememberAny == \E w \in Workers : Remember(w)

Next == SetKeyAny \/ Build \/ CallAny \/ ParseSingleAny \/ ReturnAny
NextSchema == SetKeyAny \/ Build \/ CallAny \/ ParseSingleAny \/ ReturnAny \/ SchemaAny \/ OutputType
NextReplay == SetKeyAny \/ Build \/ CallAny \/ ParseSingleAny \/ ReturnAny \/ RememberAny

Spec == Init /\ [][Next]_vars
SpecSchema == InitOne /\ [][NextSchema]_vars
SpecReplay == InitOne /\ [][NextReplay]_vars

\* ---- properties -----------------------------------------------------------
Done(w) == workers[w].pc = "done"
TheEvent(w) == workers[w].result.events[1]
RootValue(w) == TheEvent(w).log.value
Found(v) == [found |-> TRUE, value |-> v]

\* C1: every completed parse call, whatever the buffer (the empty one too) and
\* the namespace, returned Ok with exactly one event.
C1_ParseTotal ==
  \A w \in Workers : Done(w) =>
    /\ workers[w].result.status = "Ok"
    /\ Len(workers[w].result.events) = 1
C1_Witness ==
  \E w, u \in Workers :
    /\ Done(w) /\ workers[w].bytes = <<>> /\ workers[w].ns = "Legacy"
    /\ Done(u) /\ workers[u].bytes # <<>> /\ workers[u].ns = "Vector"
    /\ workers[w].result.status = "Ok" /\ workers[u].result.status = "Ok"

\* C2: a completed parse(b, Legacy) returned an event whose field at the
\* instance's message key is present and equals b, and that is the event's
\* only top-level field.
C2_LegacyPlacement ==
  \A w \in Workers : (Done(w) /\ workers[w].ns = "Legacy") =>
    LET key == decoders[workers[w].d].log_schema_message_key
    IN /\ ValueGet(RootValue(w), parse_value_path(key)) = Found(BytesValue(workers[w].bytes))
       /\ RootValue(w).kind = "object"
       /\ FieldNames(RootValue(w)) = {key}
C2_Witness ==
  \E w \in Workers :
    /\ Done(w) /\ workers[w].ns = "Legacy" /\ workers[w].bytes = <<>>
    /\ ValueGet(RootValue(w), <<decoders[workers[w].d].log_schema_message_key>>).found

\* C3: a completed parse(b, Vector) returned an event whose root value is b
\* itself, a byte string and not an object holding b under the message key.
C3_ModernPlacement ==
  \A w \in Workers : (Done(w) /\ workers[w].ns = "Vector") =>
    /\ ValueGet(RootValue(w), event_root) = Found(BytesValue(workers[w].bytes))
    /\ RootValue(w).kind = "bytes"
    /\ ~ValueGet(RootValue(w),
                 parse_value_path(decoders[workers[w].d].log_schema_message_key)).found
C3_Witness ==
  \E w \in Workers :
    /\ Done(w) /\ workers[w].ns = "Vector" /\ Len(workers[w].bytes) >= 2
    /\ RootValue(w).bytes = workers[w].bytes

\* the shape of a value, as a Kind
RECURSIVE KindOf(_)
KindOf(v) ==
  IF v.kind = "bytes" THEN Kind_bytes
  ELSE Kind_object({<<f[1], KindOf(f[2])>> : f \in v.fields})
\* the Kind a definition declares at a path
RECURSIVE KindAt(_, _)
KindAt(kind, path) ==
  IF path = <<>> THEN kind
  ELSE IF kind.type = "object" /\ \E f \in kind.fields : f[1] = Head(path)
       THEN KindAt((CHOOSE f \in kind.fields : f[1] = Head(path))[2], Tail(path))
       ELSE [type |-> "never", fields |-> {}]
\* the paths a definition tags with a meaning
MeaningPaths(def, meaning) == {m[2] : m \in {n \in def.meaning : n[1] = meaning}}
Conforms(w, def) ==
  /\ KindOf(RootValue(w)) = def.event_kind
  /\ \E t \in MeaningPaths(def, "message") :
       /\ KindAt(def.event_kind, t.path) = Kind_bytes
       /\ ValueGet(RootValue(w), t.path) = Found(BytesValue(workers[w].bytes))

\* C4: every event a completed parse(_, ns) returned has the shape every
\* schema_definition(ns) call declared: the same kind, and the payload at the
\* path tagged `message`, declared a byte string.
C4_SchemaMatchesEvents ==
  \A w \in Workers : Done(w) => \A def \in schemas[workers[w].ns] : Conforms(w, def)

\* C5: all schema_definition calls with the same namespace returned the same
\* definition.
C5_SchemaPure == \A ns \in LogNamespace : Cardinality(schemas[ns]) <= 1

\* C6: a completed parse call left the caller's buffer as it was, and it
\* returned what the remembered earlier call with the same instance, buffer
\* and namespace returned.
C6_Deterministic ==
  \A w \in Workers :
    /\ workers[w].pc # "idle" => workers[w].input = workers[w].bytes
    /\ (Done(w) /\ memo.taken /\ memo.d = workers[w].d /\ memo.bytes = workers[w].bytes
        /\ memo.ns = workers[w].ns) => workers[w].result = memo.result
C6_Witness ==
  \E w \in Workers :
    /\ Done(w) /\ memo.taken /\ memo.d = workers[w].d /\ memo.bytes = workers[w].bytes
    /\ memo.ns = workers[w].ns /\ memo.ns = "Legacy" /\ memo.bytes # <<>>
    /\ message_key # built_under[memo.d]
    /\ workers[w].input = memo.bytes

\* C7: every instance keeps the key the process had when the instance was
\* built, and a completed parse(b, Legacy) placed b at that key, whatever the
\* process-wide key is now and whatever key another instance holds.
C7_KeyCapturedAtBuild ==
  /\ \A d \in DecoderIds : decoders[d].built =>
       decoders[d].log_schema_message_key = built_under[d]
  /\ \A w \in Workers : (Done(w) /\ workers[w].ns = "Legacy") =>
       RootValue(w) = ObjectValue({<<built_under[workers[w].d], BytesValue(workers[w].bytes)>>})
C7_Witness ==
  \E w, u \in Workers :
    /\ Done(w) /\ Done(u) /\ workers[w].ns = "Legacy" /\ workers[u].ns = "Legacy"
    /\ workers[w].d # workers[u].d
    /\ built_under[workers[w].d] # built_under[workers[u].d]
    /\ message_key # built_under[workers[w].d]
    /\ FieldNames(RootValue(w)) # FieldNames(RootValue(u))

\* C8: in every step, at most one worker's call changes, no built instance is
\* written, and a call that completes has the result of parse run alone on its
\* own arguments.
Isolated ==
  /\ \A d \in DecoderIds : decoders[d].built => decoders'[d] = decoders[d]
  /\ \A w, u \in Workers : (w # u /\ workers'[w] # workers[w]) => workers'[u] = workers[u]
  /\ \A w \in Workers : (workers'[w].pc = "done") =>
       workers'[w].result = parse(decoders[workers'[w].d], workers'[w].bytes, workers'[w].ns)
C8_SharedWithoutLocking == [][Isolated]_vars
C8_Witness ==
  \E w, u \in Workers :
    /\ w # u /\ workers[w].d = workers[u].d
    /\ Done(w) /\ workers[u].pc = "return"
    /\ workers[w].bytes # workers[u].bytes
    /\ workers[w].ns = "Legacy" /\ workers[u].ns = "Legacy"
    /\ message_key # decoders[workers[w].d].log_schema_message_key

\* C9: output_type has returned Log whenever it was called, before and after
\* build and whatever schema_definition and parse calls were made.
C9_OutputTypeLog == otype # "none" => otype = "Log"
C9_Witness ==
  /\ otype = "Log"
  /\ \E d \in DecoderIds : decoders[d].built
  /\ \A ns \in LogNamespace : schemas[ns] # {}
  /\ \E w \in Workers : Done(w) /\ workers[w].ns = "Vector"

\* C10: whatever the order of setting the process-wide key, build and
\* schema_definition(Legacy), the field path a returned Legacy definition
\* declares is the path of the key a built instance inserts the payload at.
C10_SchemaPathIsDecoderKey ==
  \A d \in DecoderIds : decoders[d].built =>
    \A def \in schemas["Legacy"] :
      MeaningPaths(def, "message") =
        {TargetPath_event(parse_value_path(decoders[d].log_schema_message_key))}

\* checks of the parts of C4, C5 and C10 that do hold
C4_WhileKeyUnset == key_sets = 0 => C4_SchemaMatchesEvents
C4_Vector ==
  \A w \in Workers : (Done(w) /\ workers[w].ns = "Vector") =>
    \A def \in schemas["Vector"] : Conforms(w, def)
C5_Vector == Cardinality(schemas["Vector"]) <= 1

TypeOK ==
  /\ message_key \in Keys
  /\ key_sets \in 0..MaxKeySets
  /\ \A d \in DecoderIds : decoders[d].built \in BOOLEAN
  /\ \A w \in Workers : workers[w].pc \in {"idle", "parse_single", "return", "done"}
  /\ otype \in {"none", "Log", "Metric"}
====
